---- MODULE Spec2Model ----
(***************************************************************************)
(* A model of scanner.py (camp-finder): the driver parses a query window,  *)
(* enumerates the calendar months it overlaps, fetches one availability    *)
(* record per month, filters the records into a mapping from site id to    *)
(* the list of available dates, resolves the campground name and prints a  *)
(* two-line report.                                                        *)
(*                                                                         *)
(* A datetime is <<year, month, day>> (every datetime of the program is at *)
(* midnight).  A date string is <<year, month, day, tail>>: the digits it  *)
(* spells and the literal text after them ("" for "%Y-%m-%d",              *)
(* "T00:00:00Z" for the availability keys, "T00:00:00.000Z" for the        *)
(* request parameter).  A JSON object is a function from its keys; the     *)
(* campsites and availabilities objects, which the program iterates, are   *)
(* sequences of (key, value) pairs in iteration order, with site_data      *)
(* standing for site_data["availabilities"].                               *)
(*                                                                         *)
(* Left out: the headers (they are passed through unread) and exceptions   *)
(* raised by the HTTP transport itself; a response is a status and a body. *)
(***************************************************************************)
EXTENDS Integers, Sequences, FiniteSets, TLC

VARIABLES
    pc,                \* the driver's position
    input_start_date,  \* driver's arguments
    input_end_date,
    start_date,        \* the parsed query window
    end_date,
    month_params,      \* the month markers, formatted for the API
    sent,              \* every request issued so far, in order
    received,          \* the response to each month request, in order
    name_response,     \* the response to the name request (NoResponse before it)
    raw_data,          \* get_data's list of fetched month records
    idx,               \* month records filter_data has processed
    data,              \* filter_data's mapping while it is being built
    filtered_data,     \* driver's filtered_data (NoneDict until assigned)
    stdout,            \* every line printed so far, in order
    failed_at          \* the step an unhandled exception ended the run in

vars == <<pc, input_start_date, input_end_date, start_date, end_date,
          month_params, sent, received, name_response, raw_data, idx, data,
          filtered_data, stdout, failed_at>>

(* ------------------------------ bounds --------------------------------- *)

\* calendar months the driver's inputs and the fetched records range over
MaxSpan == 2
\* calendar months the month enumerator's inputs range over
MaxMonths == 14
\* month records handed to filter_data when it is checked on its own
MaxRecords == 2

(* --------------------------- values and dates -------------------------- *)

\* a datetime variable not yet assigned, and the exception strptime raises
NoDate == <<>>
ValueError == <<"ValueError">>
\* a dict variable not yet assigned, and the empty dict
NoneDict == [None |-> TRUE]
EmptyDict == [k \in {} |-> <<>>]
\* Python's False, as send_request returns it
FalseVal == [False |-> TRUE]
\* no response yet
NoResponse == [status |-> 0, body |-> EmptyDict]

InputFormat == ""
AvailabilityFormat == "T00:00:00Z"
ParamFormat == "T00:00:00.000Z"

IsLeap(y) == (y % 4 = 0) /\ ((y % 100 # 0) \/ (y % 400 = 0))

DaysInMonth(y, m) ==
    IF m = 2 THEN (IF IsLeap(y) THEN 29 ELSE 28)
    ELSE IF m \in {4, 6, 9, 11} THEN 30 ELSE 31

\* datetime.strptime(s, "%Y-%m-%d" + tail): the literal tail must match and
\* the digits must name a day of the calendar, otherwise ValueError is raised
strptime(s, tail) ==
    IF /\ s[4] = tail
       /\ s[2] \in 1..12
       /\ s[3] \in 1..DaysInMonth(s[1], s[2])
    THEN <<s[1], s[2], s[3]>>
    ELSE ValueError

\* datetime.strftime(d, "%Y-%m-%d" + tail)
strftime(d, tail) == <<d[1], d[2], d[3], tail>>

\* a < b on datetimes
Before(a, b) ==
    \/ a[1] < b[1]
    \/ a[1] = b[1] /\ a[2] < b[2]
    \/ a[1] = b[1] /\ a[2] = b[2] /\ a[3] < b[3]

format_date(date_object) == strftime(date_object, ParamFormat)

StartOfMonth(d) == <<d[1], d[2], 1>>

AddMonth(d) == IF d[2] = 12 THEN <<d[1] + 1, 1, d[3]>> ELSE <<d[1], d[2] + 1, d[3]>>

\* the rrule with until taken as exclusive
RECURSIVE rrule_monthly_exclusive(_, _)
rrule_monthly_exclusive(dt, until) ==
    IF ~Before(dt, until) THEN <<>>
    ELSE <<dt>> \o rrule_monthly_exclusive(AddMonth(dt), until)

\* list(rrule.rrule(rrule.MONTHLY, dtstart=dt, until=until)), dt a 1st of month
RECURSIVE rrule_monthly(_, _)
rrule_monthly(dt, until) ==
    IF Before(until, dt) THEN <<>>
    ELSE <<dt>> \o rrule_monthly(AddMonth(dt), until)

\* month_params of driver
MonthParams(start, end) ==
    LET months == rrule_monthly(StartOfMonth(start), end)
    IN  [k \in 1..Len(months) |-> format_date(months[k])]

\* strptime inside date_in_range raises on this string
Malformed(date_str) == strptime(date_str, AvailabilityFormat) = ValueError

\* date_in_range with the start bound exclusive
date_in_range_exclusive(start, end, date_str) ==
    LET date == strptime(date_str, AvailabilityFormat)
    IN  IF Before(end, date) \/ ~Before(start, date) THEN FALSE ELSE TRUE

\* date_in_range with only the end bound checked
date_in_range_end_only(start, end, date_str) ==
    LET date == strptime(date_str, AvailabilityFormat)
    IN  IF Before(end, date) THEN FALSE ELSE TRUE

\* date_in_range, for a date_str that parses
date_in_range(start, end, date_str) ==
    LET date == strptime(date_str, AvailabilityFormat)
    IN  IF Before(end, date) \/ Before(date, start) THEN FALSE ELSE TRUE

(* ------------------------------ filter_data ---------------------------- *)

\* what a piece of filter_data yields: the exception it raised, if any
Raised(exception) == [raised |-> exception, value |-> <<>>]
Returned(value) == [raised |-> "", value |-> value]

\* the inner loop with the status looked at before the date: a date string
\* that does not parse raises only when its status is "Available"
RECURSIVE collect_dates_status_first(_, _, _)
collect_dates_status_first(avail, start, end) ==
    IF avail = <<>> THEN Returned(<<>>)
    ELSE LET date   == Head(avail)[1]
             status == Head(avail)[2]
             rest   == collect_dates_status_first(Tail(avail), start, end)
         IN  IF status # "Available" THEN rest
             ELSE IF Malformed(date) THEN Raised("ValueError")
             ELSE IF rest.raised # "" THEN rest
             ELSE IF ~date_in_range(start, end, date) THEN rest
             ELSE Returned(<<date>> \o rest.value)

\* the inner loop of filter_data: the dates one site contributes, the keys of
\* its availabilities, in iteration order, that are in range and whose status
\* is "Available"; ValueError when date_in_range cannot parse a key
RECURSIVE collect_dates(_, _, _)
collect_dates(avail, start, end) ==
    IF avail = <<>> THEN Returned(<<>>)
    ELSE LET date   == Head(avail)[1]
             status == Head(avail)[2]
             rest   == collect_dates(Tail(avail), start, end)
         IN  IF Malformed(date) THEN Raised("ValueError")
             ELSE IF rest.raised # "" THEN rest
             ELSE IF ~date_in_range(start, end, date) THEN rest
             ELSE IF status # "Available" THEN rest
             ELSE Returned(<<date>> \o rest.value)

\* the append replaced by an assignment: data[site_id] = dates
setdefault_assign(d, site_id, dates) ==
    [k \in DOMAIN d \cup {site_id} |-> IF k = site_id THEN dates ELSE d[k]]

\* the append dropped: data.setdefault(site_id, dates)
setdefault_only(d, site_id, dates) ==
    IF site_id \in DOMAIN d THEN d
    ELSE [k \in DOMAIN d \cup {site_id} |-> IF k = site_id THEN dates ELSE d[k]]

\* curr_site = data.setdefault(site_id, []); curr_site += dates
setdefault_extend(d, site_id, dates) ==
    IF site_id \in DOMAIN d
    THEN [d EXCEPT ![site_id] = @ \o dates]
    ELSE [k \in DOMAIN d \cup {site_id} |-> IF k = site_id THEN dates ELSE d[k]]

\* the loop over the sites without its "if dates:" guard
RECURSIVE filter_sites_unguarded(_, _, _, _)
filter_sites_unguarded(d, campsites, start, end) ==
    IF campsites = <<>> THEN Returned(d)
    ELSE LET site_id == Head(campsites)[1]
             dates   == collect_dates(Head(campsites)[2], start, end)
         IN  IF dates.raised # "" THEN Raised(dates.raised)
             ELSE filter_sites_unguarded(setdefault_extend(d, site_id, dates.value),
                                         Tail(campsites), start, end)

\* the loop over month_data["campsites"].items()
RECURSIVE filter_sites(_, _, _, _)
filter_sites(d, campsites, start, end) ==
    IF campsites = <<>> THEN Returned(d)
    ELSE LET site_id == Head(campsites)[1]
             dates   == collect_dates(Head(campsites)[2], start, end)
         IN  IF dates.raised # "" THEN Raised(dates.raised)
             ELSE filter_sites(IF dates.value # <<>>
                               THEN setdefault_extend(d, site_id, dates.value)
                               ELSE d,
                               Tail(campsites), start, end)

\* one pass of filter_data's outer loop: KeyError when the record has no
\* "campsites"
filter_month(d, month_data, start, end) ==
    IF "campsites" \notin DOMAIN month_data THEN Raised("KeyError")
    ELSE filter_sites(d, month_data.campsites, start, end)

\* filter_data's outer loop over the records of raw, from the mapping d on
RECURSIVE filter_data(_, _, _, _)
filter_data(d, raw, start, end) ==
    IF raw = <<>> THEN Returned(d)
    ELSE LET r == filter_month(d, Head(raw), start, end)
         IN  IF r.raised # "" THEN r
             ELSE filter_data(r.value, Tail(raw), start, end)

(* ------------------------------- inputs -------------------------------- *)

CampgroundId == "232825"
Days == {1, 15}
Sites == {"s1", "s2"}
Statuses == {"Available", "Reserved"}

\* the first n calendar months from December 2020 on
RECURSIVE MonthsFrom(_, _)
MonthsFrom(dt, n) == IF n = 0 THEN {} ELSE {dt} \cup MonthsFrom(AddMonth(dt), n - 1)

Calendar(n) == {<<m[1], m[2], d>> : m \in MonthsFrom(<<2020, 12, 1>>, n), d \in Days}

\* "2020-11-31" names no day: strptime raises on it
BadInput == <<2020, 11, 31, InputFormat>>

DriverInputs == {strftime(d, InputFormat) : d \in Calendar(MaxSpan)} \cup {BadInput}
EnumeratorInputs == {strftime(d, InputFormat) : d \in Calendar(MaxMonths)}

\* a date key without its time part, "2020-12-15": strptime raises on it
BadKey == <<2020, 12, 15, InputFormat>>

\* one item of site_data["availabilities"], one item of month_data["campsites"]
Item(key, status) == <<key, status>>
SiteEntry(site_id, avail) == <<site_id, avail>>

\* the availabilities of one site: (date string, status) pairs, keys distinct
AvailsOver(keys) ==
    {<<>>}
    \cup {<<Item(k, st)>> : k \in keys, st \in Statuses}
    \cup {<<Item(k[1], st1), Item(k[2], st2)>> :
              k \in {kk \in keys \X keys : kk[1] # kk[2]}, st1 \in Statuses, st2 \in Statuses}

ShortAvailsOver(keys) == {a \in AvailsOver(keys) : Len(a) <= 1}

\* what the availability endpoint may answer for a month
EmptyBody == [k \in {} |-> <<>>]
ErrorBody == [message |-> "error"]
DriverKeys == {strftime(d, AvailabilityFormat) : d \in Calendar(MaxSpan)} \cup {BadKey}
DriverBodies ==
    {EmptyBody, ErrorBody, [campsites |-> <<>>]}
    \cup {[campsites |-> <<SiteEntry(s, a)>>] : s \in Sites, a \in ShortAvailsOver(DriverKeys)}
MonthResponses ==
    {[status |-> 200, body |-> b] : b \in DriverBodies}
    \cup {[status |-> 404, body |-> EmptyBody]}

\* what the campground endpoint may answer
NameResponses ==
    {[status |-> 200, body |-> [campground |-> [facility_name |-> "Camp"]]],
     [status |-> 200, body |-> [campground |-> EmptyBody]],
     [status |-> 200, body |-> EmptyBody],
     [status |-> 404, body |-> EmptyBody]}

\* the records and windows filter_data is checked on by itself
FilterDates == {<<2020, 8, 28>>, <<2020, 8, 29>>, <<2020, 8, 30>>}
FilterKeys == {strftime(d, AvailabilityFormat) : d \in {<<2020, 8, 29>>, <<2020, 8, 30>>}}
FilterBodies ==
    {[campsites |-> <<>>]}
    \cup {[campsites |-> <<SiteEntry("s1", a)>>] : a \in AvailsOver(FilterKeys)}
    \cup {[campsites |-> <<SiteEntry("s2", a)>>] : a \in ShortAvailsOver(FilterKeys)}
    \cup {[campsites |-> <<SiteEntry("s1", <<Item(k1, "Available")>>),
                           SiteEntry("s2", <<Item(k2, "Available")>>)>>] :
              k1 \in FilterKeys, k2 \in FilterKeys}

RECURSIVE SeqsUpTo(_, _)
SeqsUpTo(S, n) ==
    IF n = 0 THEN {<<>>}
    ELSE LET shorter == SeqsUpTo(S, n - 1)
         IN  shorter \cup {Append(q, x) : q \in {r \in shorter : Len(r) = n - 1}, x \in S}

(* ---------------------------- the driver ------------------------------- *)

\* the lines the program prints
StatusLine(code) == [kind |-> "status", text |-> <<code>>]
SummaryLine(name, count, start, end) ==
    [kind |-> "summary", text |-> <<name, count, start, end>>]
LinkLine(link) == [kind |-> "link", text |-> link]

\* send_request returns the parsed body of a 200 response, False otherwise,
\* and prints the status code of any other response
send_request(response) == IF response.status = 200 THEN response.body ELSE FalseVal

\* send_request printing the status code of every response
send_request_prints_always(response) == <<StatusLine(response.status)>>

send_request_prints(response) ==
    IF response.status = 200 THEN <<>> ELSE <<StatusLine(response.status)>>

\* "if resp:" in get_data: False and the empty dict are both falsy
Truthy(resp) == resp # FalseVal /\ DOMAIN resp # {}

\* the lookup made with .get: a missing key gives None instead of raising
get_campground_name_lenient(resp) ==
    IF resp = FalseVal THEN [raised |-> "TypeError", name |-> ""]
    ELSE IF \/ "campground" \notin DOMAIN resp
            \/ "facility_name" \notin DOMAIN resp.campground
    THEN [raised |-> "", name |-> "None"]
    ELSE [raised |-> "", name |-> resp.campground.facility_name]

\* resp["campground"]["facility_name"], resp being what send_request returned:
\* TypeError on False, KeyError on a missing key
get_campground_name(resp) ==
    IF resp = FalseVal THEN [raised |-> "TypeError", name |-> ""]
    ELSE IF \/ "campground" \notin DOMAIN resp
            \/ "facility_name" \notin DOMAIN resp.campground
    THEN [raised |-> "KeyError", name |-> ""]
    ELSE [raised |-> "", name |-> resp.campground.facility_name]

page_link(campground_id) == <<"https://www.recreation.gov/camping/campgrounds/", campground_id, "/availability">>

Init ==
    /\ pc = "parse"
    /\ input_start_date \in DriverInputs
    /\ input_end_date \in DriverInputs
    /\ start_date = NoDate
    /\ end_date = NoDate
    /\ month_params = <<>>
    /\ sent = <<>>
    /\ received = <<>>
    /\ name_response = NoResponse
    /\ raw_data = <<>>
    /\ idx = 0
    /\ data = NoneDict
    /\ filtered_data = NoneDict
    /\ stdout = <<>>
    /\ failed_at = "nowhere"

\* start_date = strptime(input_start_date), end_date = strptime(input_end_date)
ParseDates ==
    /\ pc = "parse"
    /\ LET s == strptime(input_start_date, InputFormat)
           e == strptime(input_end_date, InputFormat)
       IN  IF s = ValueError
           THEN /\ pc' = "aborted"
                /\ failed_at' = "parse"
                /\ UNCHANGED <<start_date, end_date>>
           ELSE IF e = ValueError
           THEN /\ pc' = "aborted"
                /\ failed_at' = "parse"
                /\ start_date' = s
                /\ UNCHANGED end_date
           ELSE /\ pc' = "months"
                /\ start_date' = s
                /\ end_date' = e
                /\ UNCHANGED failed_at
    /\ UNCHANGED <<input_start_date, input_end_date, month_params, sent, received,
                   name_response, raw_data, idx, data, filtered_data, stdout>>

\* start_of_month, the rrule and the list of formatted month markers
EnumerateMonths ==
    /\ pc = "months"
    /\ month_params' = MonthParams(start_date, end_date)
    /\ pc' = "fetch"
    /\ UNCHANGED <<input_start_date, input_end_date, start_date, end_date, sent,
                   received, name_response, raw_data, idx, data, filtered_data,
                   stdout, failed_at>>

\* one pass of get_data's loop: send_request for the next month marker
FetchMonth ==
    /\ pc = "fetch"
    /\ Len(sent) < Len(month_params)
    /\ \E response \in MonthResponses :
          LET resp == send_request(response)
          IN  /\ sent' = Append(sent, <<"month", month_params[Len(sent) + 1]>>)
              /\ received' = Append(received, response)
              /\ stdout' = stdout \o send_request_prints(response)
              /\ raw_data' = IF Truthy(resp) THEN Append(raw_data, resp) ELSE raw_data
    /\ UNCHANGED <<pc, input_start_date, input_end_date, start_date, end_date,
                   month_params, name_response, idx, data, filtered_data, failed_at>>

\* get_data returns; filter_data starts with data = {}
StartFilter ==
    /\ pc = "fetch"
    /\ Len(sent) = Len(month_params)
    /\ pc' = "filter"
    /\ data' = EmptyDict
    /\ idx' = 0
    /\ UNCHANGED <<input_start_date, input_end_date, start_date, end_date,
                   month_params, sent, received, name_response, raw_data,
                   filtered_data, stdout, failed_at>>

\* one pass of filter_data's loop over raw_data
FilterMonth ==
    /\ pc = "filter"
    /\ idx < Len(raw_data)
    /\ LET r == filter_month(data, raw_data[idx + 1], start_date, end_date)
       IN  IF r.raised # ""
           THEN /\ pc' = "aborted"
                /\ failed_at' = "filter"
                /\ data' = NoneDict
                /\ UNCHANGED idx
           ELSE /\ data' = r.value
                /\ idx' = idx + 1
                /\ UNCHANGED <<pc, failed_at>>
    /\ UNCHANGED <<input_start_date, input_end_date, start_date, end_date,
                   month_params, sent, received, name_response, raw_data,
                   filtered_data, stdout>>

\* filter_data returns data; driver binds it to filtered_data
FilterReturn ==
    /\ pc = "filter"
    /\ idx = Len(raw_data)
    /\ filtered_data' = data
    /\ pc' = "report"
    /\ UNCHANGED <<input_start_date, input_end_date, start_date, end_date,
                   month_params, sent, received, name_response, raw_data, idx, data,
                   stdout, failed_at>>

\* the first print: its argument get_campground_name issues the name request
\* and subscripts the answer before anything is printed
PrintSummary ==
    /\ pc = "report"
    /\ \E response \in NameResponses :
          LET name == get_campground_name(send_request(response))
          IN  /\ sent' = Append(sent, <<"name", CampgroundId>>)
              /\ name_response' = response
              /\ IF name.raised # ""
                 THEN /\ stdout' = stdout \o send_request_prints(response)
                      /\ pc' = "aborted"
                      /\ failed_at' = "report"
                 ELSE /\ stdout' = stdout \o send_request_prints(response)
                                    \o <<SummaryLine(name.name,
                                                     Cardinality(DOMAIN filtered_data),
                                                     start_date, end_date)>>
                      /\ pc' = "link"
                      /\ UNCHANGED failed_at
    /\ UNCHANGED <<input_start_date, input_end_date, start_date, end_date,
                   month_params, received, raw_data, idx, data, filtered_data>>

\* the second print, and driver returns
PrintLink ==
    /\ pc = "link"
    /\ stdout' = Append(stdout, LinkLine(page_link(CampgroundId)))
    /\ pc' = "done"
    /\ UNCHANGED <<input_start_date, input_end_date, start_date, end_date,
                   month_params, sent, received, name_response, raw_data, idx, data,
                   filtered_data, failed_at>>

Next ==
    \/ ParseDates
    \/ EnumerateMonths
    \/ FetchMonth
    \/ StartFilter
    \/ FilterMonth
    \/ FilterReturn
    \/ PrintSummary
    \/ PrintLink

Spec == Init /\ [][Next]_vars

(* --------------------- the month enumerator by itself ------------------- *)

InitMonths ==
    /\ pc = "parse"
    /\ input_start_date \in EnumeratorInputs
    /\ input_end_date \in EnumeratorInputs
    /\ start_date = NoDate
    /\ end_date = NoDate
    /\ month_params = <<>>
    /\ sent = <<>>
    /\ received = <<>>
    /\ name_response = NoResponse
    /\ raw_data = <<>>
    /\ idx = 0
    /\ data = NoneDict
    /\ filtered_data = NoneDict
    /\ stdout = <<>>
    /\ failed_at = "nowhere"

NextMonths == ParseDates \/ EnumerateMonths

SpecMonths == InitMonths /\ [][NextMonths]_vars

(* ------------------------- filter_data by itself ------------------------ *)

InitFilter ==
    /\ pc = "filter"
    /\ input_start_date \in {strftime(d, InputFormat) : d \in FilterDates}
    /\ input_end_date \in {strftime(d, InputFormat) : d \in FilterDates}
    /\ start_date = strptime(input_start_date, InputFormat)
    /\ end_date = strptime(input_end_date, InputFormat)
    /\ month_params = <<>>
    /\ sent = <<>>
    /\ received = <<>>
    /\ name_response = NoResponse
    /\ raw_data \in SeqsUpTo(FilterBodies, MaxRecords)
    /\ idx = 0
    /\ data = EmptyDict
    /\ filtered_data = NoneDict
    /\ stdout = <<>>
    /\ failed_at = "nowhere"

NextFilter == FilterMonth \/ FilterReturn

SpecFilter == InitFilter /\ [][NextFilter]_vars

(* ------------------------------ the claims ----------------------------- *)

\* the date a key spells lies in the inclusive query window
InWindow(key) ==
    LET date == strptime(key, AvailabilityFormat)
    IN  ~Before(date, start_date) /\ ~Before(end_date, date)

\* one of the first n records maps site's availabilities[key] to status
Offers(n, site, key, status) ==
    \E k \in 1..n :
       /\ "campsites" \in DOMAIN raw_data[k]
       /\ \E i \in 1..Len(raw_data[k].campsites) :
             /\ raw_data[k].campsites[i][1] = site
             /\ \E j \in 1..Len(raw_data[k].campsites[i][2]) :
                   raw_data[k].campsites[i][2][j] = Item(key, status)

\* key is in site's list of the mapping d
Listed(d, site, key) ==
    site \in DOMAIN d /\ \E j \in 1..Len(d[site]) : d[site][j] = key

Qualifies(n, site, key) == Offers(n, site, key, "Available") /\ InWindow(key)

ExactlyQualifying(d, n) ==
    /\ DOMAIN d \subseteq Sites
    /\ \A site \in DOMAIN d : \A j \in 1..Len(d[site]) : d[site][j] \in FilterKeys
    /\ \A site \in Sites : \A key \in FilterKeys :
          Listed(d, site, key) <=> Qualifies(n, site, key)

\* C1: a date string is in a site's result list if and only if some month
\* record processed so far gives that site that date with status exactly
\* "Available" and the date lies in the query window, both bounds inclusive.
C1_QualifyingIff ==
    /\ pc = "filter" => ExactlyQualifying(data, idx)
    /\ filtered_data # NoneDict => ExactlyQualifying(filtered_data, Len(raw_data))

\* filter_data has returned a list holding the window's first and last day,
\* and has left out an "Available" date outside the window and a "Reserved"
\* date inside it
C1_Witness ==
    /\ pc = "report"
    /\ filtered_data # NoneDict
    /\ \E site \in Sites : \E key \in FilterKeys :
          Listed(filtered_data, site, key) /\ strptime(key, AvailabilityFormat) = start_date
    /\ \E site \in Sites : \E key \in FilterKeys :
          Listed(filtered_data, site, key) /\ strptime(key, AvailabilityFormat) = end_date
    /\ \E site \in Sites : \E key \in FilterKeys :
          Offers(Len(raw_data), site, key, "Available") /\ ~InWindow(key)
    /\ \E site \in Sites : \E key \in FilterKeys :
          /\ Offers(Len(raw_data), site, key, "Reserved")
          /\ InWindow(key)
          /\ ~Listed(filtered_data, site, key)

\* the sites with at least one qualifying date among the first n records
QualifyingSites(n) ==
    {site \in Sites : \E key \in DriverKeys \ {BadKey} : Qualifies(n, site, key)}

NoEmptyList(d, n) ==
    /\ \A site \in DOMAIN d : d[site] # <<>>
    /\ DOMAIN d = QualifyingSites(n)

\* C2: after any number of month records no key of filter_data's mapping
\* has an empty list, a site with no qualifying date is absent, and the site
\* count of the summary line is the number of sites with a qualifying date.
C2_NoEmptyLists ==
    /\ pc = "filter" => NoEmptyList(data, idx)
    /\ filtered_data # NoneDict => NoEmptyList(filtered_data, Len(raw_data))
    /\ \A k \in 1..Len(stdout) :
          stdout[k].kind = "summary" =>
             stdout[k].text[2] = Cardinality(QualifyingSites(Len(raw_data)))

\* the summary line reports no site although a record listed one: each of
\* its dates was "Reserved" or outside the window
C2_Witness ==
    /\ pc = "done"
    /\ \E k \in 1..Len(stdout) : stdout[k].kind = "summary" /\ stdout[k].text[2] = 0
    /\ \E k \in 1..Len(raw_data) : \E i \in 1..Len(raw_data[k].campsites) :
          raw_data[k].campsites[i][2] # <<>>
    /\ filtered_data = EmptyDict

\* the items one record holds for a site, in iteration order
RECURSIVE SiteItems(_, _)
SiteItems(campsites, site) ==
    IF campsites = <<>> THEN <<>>
    ELSE (IF Head(campsites)[1] = site THEN Head(campsites)[2] ELSE <<>>)
         \o SiteItems(Tail(campsites), site)

\* the items the first n records hold for a site, in record order
RECURSIVE ItemsOf(_, _)
ItemsOf(n, site) ==
    IF n = 0 THEN <<>>
    ELSE ItemsOf(n - 1, site) \o SiteItems(raw_data[n].campsites, site)

QualifyingItem(item) == item[2] = "Available" /\ InWindow(item[1])

\* the qualifying date strings of a site, once per occurrence, in the order met
Concatenation(n, site) ==
    LET q == SelectSeq(ItemsOf(n, site), QualifyingItem)
    IN  [j \in 1..Len(q) |-> q[j][1]]

IsPrefix(p, q) == Len(p) <= Len(q) /\ SubSeq(q, 1, Len(p)) = p

C3_State ==
    /\ pc = "filter" => \A site \in DOMAIN data : data[site] = Concatenation(idx, site)
    /\ filtered_data # NoneDict =>
          \A site \in DOMAIN filtered_data :
             filtered_data[site] = Concatenation(Len(raw_data), site)

C3_Step ==
    (pc = "filter" /\ pc' = "filter") =>
       \A site \in DOMAIN data : site \in DOMAIN data' /\ IsPrefix(data[site], data'[site])

\* C3: a site's list is the concatenation, in month-record order, of each
\* record's qualifying dates in that record's iteration order; a later record
\* only appends to it, and a date that repeats is listed once per occurrence.
C3_Concatenation == [](C3_State) /\ [][C3_Step]_vars

\* a site's list was built from two records and holds one date twice
C3_Witness ==
    /\ pc = "report"
    /\ \E site \in DOMAIN filtered_data \ {"None"} :
          /\ Len(filtered_data[site]) >= 3
          /\ filtered_data[site][1] # filtered_data[site][2]
          /\ \E j \in 3..Len(filtered_data[site]) :
                filtered_data[site][j] = filtered_data[site][1]

\* the orders a list of n records can be handed over in
Orders(n) == {f \in [1..n -> 1..n] : \A i, j \in 1..n : i # j => f[i] # f[j]}

Reordered(raw, f) == [k \in 1..Len(raw) |-> raw[f[k]]]

FilterReordered(f) ==
    filter_data(EmptyDict, Reordered(raw_data, f), start_date, end_date).value

Occurrences(q, x) == Cardinality({j \in 1..Len(q) : q[j] = x})

\* C10 as stated: filter_data returns the same mapping, each site with the
\* same date list, for every order of the month records.
C10_SameMapping ==
    filtered_data # NoneDict =>
       \A f \in Orders(Len(raw_data)) : FilterReordered(f) = filtered_data

\* C10 as amended: for every order of the month records filter_data returns
\* the same site ids, each with the same dates the same number of times; the
\* order of a site's list follows the order of the records.
C10_SameSitesSameDates ==
    filtered_data # NoneDict =>
       \A f \in Orders(Len(raw_data)) :
          LET reordered == FilterReordered(f)
          IN  /\ DOMAIN reordered = DOMAIN filtered_data
              /\ \A site \in DOMAIN filtered_data : \A key \in FilterKeys :
                    Occurrences(reordered[site], key)
                       = Occurrences(filtered_data[site], key)

\* two records give one site different qualifying dates, so that the record
\* order shows in the site's list
C10_Witness ==
    /\ pc = "report"
    /\ filtered_data # NoneDict
    /\ \E f \in Orders(Len(raw_data)) : \E site \in DOMAIN filtered_data :
          FilterReordered(f)[site] # filtered_data[site]

\* calendar months a window spans, both ends counted
SpannedMonths(start, end) == (end[1] * 12 + end[2]) - (start[1] * 12 + start[2]) + 1

Enumerated == pc = "fetch" /\ ~Before(end_date, start_date)

\* C4: for a window with start_date <= end_date spanning N calendar months
\* the month list has exactly N markers, strictly increasing, each the 1st of
\* its month, from the 1st of start_date's month to the 1st of end_date's
\* month; a window inside one month gives exactly one marker.
C4_MonthMarkers ==
    Enumerated =>
       LET n == Len(month_params)
       IN  /\ n = SpannedMonths(start_date, end_date)
           /\ n >= 1
           /\ \A k \in 1..n :
                 /\ month_params[k][3] = 1
                 /\ month_params[k][2] \in 1..12
                 /\ month_params[k][4] = ParamFormat
           /\ \A k \in 1..(n - 1) :
                 Before(strptime(month_params[k], ParamFormat),
                        strptime(month_params[k + 1], ParamFormat))
           /\ month_params[1] = <<start_date[1], start_date[2], 1, ParamFormat>>
           /\ month_params[n] = <<end_date[1], end_date[2], 1, ParamFormat>>
           /\ (start_date[1] = end_date[1] /\ start_date[2] = end_date[2]) => n = 1

\* a window from the middle of one month to the 1st of a month of the next
\* year has been enumerated
C4_Witness ==
    /\ Enumerated
    /\ start_date[3] # 1
    /\ end_date[3] = 1
    /\ end_date[1] > start_date[1]
    /\ Len(month_params) >= 3

FetchOver == pc \in {"filter", "report", "link", "done"} \/ failed_at \in {"filter", "report"}

\* the bodies of the responses with status 200 among the first n, in order
RECURSIVE SuccessfulBodies(_)
SuccessfulBodies(n) ==
    IF n = 0 THEN <<>>
    ELSE SuccessfulBodies(n - 1)
         \o (IF received[n].status = 200 THEN <<received[n].body>> ELSE <<>>)

\* C5: get_data issues exactly one request per month marker, in marker order,
\* and returns the parsed bodies of exactly the months answered with status
\* 200, in marker order; a month answered otherwise is skipped and the run
\* goes on.
C5_ExactlySuccessfulMonths ==
    /\ pc = "fetch" =>
          /\ Len(sent) = Len(received)
          /\ \A k \in 1..Len(sent) : sent[k] = <<"month", month_params[k]>>
          /\ raw_data = SuccessfulBodies(Len(received))
    /\ FetchOver =>
          /\ Len(received) = Len(month_params)
          /\ \A k \in 1..Len(month_params) : sent[k] = <<"month", month_params[k]>>
          /\ raw_data = SuccessfulBodies(Len(received))

\* a month answered with status 200 holds a date string strptime rejects
MalformedIn(body) ==
    /\ "campsites" \in DOMAIN body
    /\ \E i \in 1..Len(body.campsites) : \E j \in 1..Len(body.campsites[i][2]) :
          Malformed(body.campsites[i][2][j][1])

MalformedFetched ==
    \E k \in 1..Len(received) : received[k].status = 200 /\ MalformedIn(received[k].body)

NameRequested == \E k \in 1..Len(sent) : sent[k][1] = "name"

ReportPrinted == \E k \in 1..Len(stdout) : stdout[k].kind \in {"summary", "link"}

\* C6: once a fetched month record holds a date string that does not match
\* the availability format, whatever its status, the run never gets past the
\* filter step: no availability result is bound, no name request is issued,
\* no report line is printed, and the run ends aborted in the filter.
C6_MalformedDateAborts ==
    MalformedFetched =>
       /\ pc \in {"fetch", "filter", "aborted"}
       /\ pc = "aborted" => failed_at = "filter"
       /\ filtered_data = NoneDict
       /\ ~NameRequested
       /\ ~ReportPrinted

\* the filter had built a result from one record when the next record's
\* malformed key, with status "Reserved", ended the run
C6_Witness ==
    /\ pc = "aborted"
    /\ failed_at = "filter"
    /\ idx >= 1
    /\ \E site \in Sites : \E key \in DriverKeys \ {BadKey} : Qualifies(idx, site, key)
    /\ "campsites" \in DOMAIN raw_data[idx + 1]
    /\ \E i \in 1..Len(raw_data[idx + 1].campsites) :
          raw_data[idx + 1].campsites[i][2] = <<Item(BadKey, "Reserved")>>

\* driver was called with two well-formed dates, the end before the start
InvertedWindow ==
    /\ strptime(input_start_date, InputFormat) # ValueError
    /\ strptime(input_end_date, InputFormat) # ValueError
    /\ Before(strptime(input_end_date, InputFormat), strptime(input_start_date, InputFormat))

SameMonth == input_start_date[1] = input_end_date[1] /\ input_start_date[2] = input_end_date[2]

\* C7 as stated: a call whose end date is before its start date ends with an
\* unhandled failure at parse time, before any month marker, request or line.
C7_InvertedWindowFailsAtParse ==
    (InvertedWindow /\ pc # "parse") =>
       /\ pc = "aborted"
       /\ failed_at = "parse"
       /\ month_params = <<>>
       /\ sent = <<>>
       /\ stdout = <<>>

\* C7 as amended: such a call does not fail at parse time; its month list is
\* empty, or holds the one marker of the common month when both dates fall in
\* the same month; the filter result is the empty mapping and the summary
\* line reports 0 sites.
C7_InvertedWindowRuns ==
    InvertedWindow =>
       /\ failed_at # "parse"
       /\ pc # "parse" => start_date = strptime(input_start_date, InputFormat)
                          /\ end_date = strptime(input_end_date, InputFormat)
       /\ pc \notin {"parse", "months"} =>
             Len(month_params) = (IF SameMonth THEN 1 ELSE 0)
       /\ Len(sent) <= Len(month_params) + 1
       /\ pc = "filter" => data = EmptyDict
       /\ filtered_data # NoneDict => filtered_data = EmptyDict
       /\ \A k \in 1..Len(stdout) : stdout[k].kind = "summary" => stdout[k].text[2] = 0

\* a run with the end before the start, in the same month, fetched a record
\* with an "Available" date and ended normally
C7_Witness ==
    /\ InvertedWindow
    /\ pc = "done"
    /\ Len(raw_data) = 1
    /\ \E site \in Sites : \E key \in DriverKeys \ {BadKey} :
          Offers(1, site, key, "Available")

NameUnusable ==
    /\ name_response # NoResponse
    /\ \/ name_response.status # 200
       \/ "campground" \notin DOMAIN name_response.body
       \/ "facility_name" \notin DOMAIN name_response.body.campground

\* C8: the name request is issued only after every month request has been
\* answered and filter_data has returned; if it is answered with a status
\* other than 200 or with a body without campground.facility_name the run
\* aborts at the report step with neither report line printed.
C8_NameRequestLast ==
    /\ \A k \in 1..Len(sent) :
          sent[k][1] = "name" =>
             /\ k = Len(sent)
             /\ k = Len(month_params) + 1
             /\ Len(received) = Len(month_params)
             /\ idx = Len(raw_data)
             /\ filtered_data # NoneDict
    /\ NameRequested <=> name_response # NoResponse
    /\ NameUnusable =>
          /\ pc = "aborted"
          /\ failed_at = "report"
          /\ ~ReportPrinted

\* the run fetched two months, found a site with availability and then
\* aborted on a name response without facility_name
C8_Witness ==
    /\ pc = "aborted"
    /\ failed_at = "report"
    /\ name_response.status = 200
    /\ Len(received) = 2
    /\ filtered_data # NoneDict
    /\ filtered_data # EmptyDict

\* the status codes of the responses other than 200 among the first n
RECURSIVE FailedCodes(_)
FailedCodes(n) ==
    IF n = 0 THEN <<>>
    ELSE FailedCodes(n - 1)
         \o (IF received[n].status # 200 THEN <<received[n].status>> ELSE <<>>)

\* C9 as stated: a run that terminates normally has written exactly two
\* lines, whatever the month requests returned.
C9_ExactlyTwoLines == pc = "done" => Len(stdout) = 2

\* C9 as amended: a run that terminates normally has written one status-code
\* line per month request answered with a status other than 200, in request
\* order, and then the summary line and the booking-link line; exactly two
\* lines when every month request was answered with status 200.
C9_StatusLinesThenReport ==
    pc = "done" =>
       LET codes == FailedCodes(Len(received))
           n     == Len(codes)
       IN  /\ Len(stdout) = n + 2
           /\ \A k \in 1..n : stdout[k] = StatusLine(codes[k])
           /\ stdout[n + 1].kind = "summary"
           /\ stdout[n + 2] = LinkLine(page_link(CampgroundId))

\* a run with one month answered 404 and one answered 200 ended normally
C9_Witness ==
    /\ pc = "done"
    /\ \E k \in 1..Len(received) : received[k].status # 200
    /\ \E k \in 1..Len(received) : received[k].status = 200

====
